---------------------------- MODULE Spec2Model ----------------------------
(***************************************************************************)
(* A model of the headless batch driver (headless/src/main.rs) and of the  *)
(* challenge prebaking (game/src/challenges.rs) of A/B Street.             *)
(*                                                                         *)
(* The simulation engine (crate sim: load, spawn, step, save, the loop of  *)
(* run_until_done, Tick::parse) is not among the source files; it is       *)
(* modelled from the specification's sections 4.1 to 4.6 and 5.  What main *)
(* itself does (the order of the calls, the spawn guard, the handling of   *)
(* save_at, the halt-condition closure) is modelled from the source.       *)
(*                                                                         *)
(* A behaviour of Spec is a sequence of invocations of the headless        *)
(* program, one after the other, over one persistent disk of savestates.   *)
(***************************************************************************)
EXTENDS Integers, Sequences, FiniteSets, TLC

(* ------------------------------ bounds -------------------------------- *)

\* Invocations of the program in one behaviour.
MaxRuns == 2

\* Trips spawned by the small and by the big demand profile (scaled down).
SmallTrips == 1

BigTrips == 2

\* Longest trip, in ticks.
MaxDur == 3

\* The pseudo-random stream has this many states.
RngMod == 16

\* Trips of the scenario that prebaking loads.
MaxScenario == 3

\* Duration::END_OF_DAY, in ticks (scaled down).
EndOfDay == 6

\* How many events the GUI is followed for.
MaxEvents == 4

\* Ticks a run that never completes is followed for.
MaxTicks == 5

(* ------------------------------ values -------------------------------- *)

\* Option<T>: None is the empty sequence, Some(v) the one-element sequence.
None == <<>>

Some(v) == <<v>>

Modes == <<"Walk", "Bike", "Transit", "Drive">>

\* rng_seed values given on the command line (Option<u8>).
Seeds == {2, 7}

\* What system entropy may seed the stream with when no seed is given.
EntropySeeds == {5, 11}

Digits == <<"0", "1", "2", "3", "4", "5", "6", "7", "8", "9">>

\* The save_at texts tried; a text is a sequence of characters.
SaveAtTexts == { <<"0">>, <<"0", "2">>, <<"3">>, <<"1", "x">> }

\* flags.scenario_name keeps its default value.
ScenarioName == "headless"

MapLoad == [kind |-> "map", name |-> ScenarioName, tick |-> 0]

\* A scenario whose demand never dries up.
PerpetualLoad == [kind |-> "map", name |-> "perpetual", tick |-> 0]

(* ------------------------- Tick and the stream ------------------------ *)

TickZero == 0

IsDigit(c) == \E i \in 1..Len(Digits) : Digits[i] = c

DigitVal(c) == (CHOOSE i \in 1..Len(Digits) : Digits[i] = c) - 1

RECURSIVE DecimalValue(_)
DecimalValue(text) ==
    IF text = <<>> THEN 0
    ELSE 10 * DecimalValue(SubSeq(text, 1, Len(text) - 1))
         + DigitVal(text[Len(text)])

\* Tick::parse: no value on malformed text.
TickParse(text) ==
    IF text # <<>> /\ \A i \in 1..Len(text) : IsDigit(text[i])
    THEN Some(DecimalValue(text))
    ELSE None

RngSeeded(seed) == seed % RngMod

RngNext(x) == (5 * x + 3) % RngMod

(* ------------------------------ engine -------------------------------- *)

SimNew(rng) ==
    [time |-> TickZero, rng |-> rng, next_id |-> 1,
     pending |-> {}, finished |-> <<>>,
     scenario_name |-> "", handed |-> None, perpetual |-> FALSE]

\* One spawned trip: the mode and the duration are drawn from the stream.
SpawnOne(sim) ==
    LET x1 == RngNext(sim.rng)
        x2 == RngNext(x1)
        trip == [id |-> sim.next_id,
                 mode |-> Modes[(x1 % Len(Modes)) + 1],
                 dt |-> (x2 % MaxDur) + 1,
                 finish |-> sim.time + (x2 % MaxDur) + 1]
    IN [sim EXCEPT !.rng = x2, !.next_id = @ + 1,
                   !.pending = @ \cup {trip}]

RECURSIVE SpawnN(_, _)
SpawnN(sim, n) == IF n = 0 THEN sim ELSE SpawnN(SpawnOne(sim), n - 1)

small_spawn(sim) == SpawnN(sim, SmallTrips)

big_spawn(sim) == SpawnN(sim, BigTrips)

\* A slip: the clock is kept in one bit and wraps.
SimAdvance_Wraps(sim) == [sim EXCEPT !.time = (@ + 1) % 2]

\* First half of a step: the clock moves on by one tick.
SimAdvance(sim) == [sim EXCEPT !.time = @ + 1]

\* The trips that end by now, in the order of their identifiers.
RECURSIVE InIdOrder(_)
InIdOrder(trips) ==
    IF trips = {} THEN <<>>
    ELSE LET t == CHOOSE u \in trips : \A v \in trips : u.id <= v.id
         IN <<[id |-> t.id, mode |-> t.mode, dt |-> t.dt]>>
            \o InIdOrder(trips \ {t})

\* A slip: a recorded trip stays scheduled and is recorded again.
SimRecord_KeepsPending(sim) ==
    LET ended == {t \in sim.pending : t.finish <= sim.time}
    IN [sim EXCEPT !.finished = @ \o InIdOrder(ended)]

\* Second half of a step: every trip that ended is recorded, once; under
\* perpetual demand a new trip is scheduled for each one that ended.
SimRecord(sim) ==
    LET ended == {t \in sim.pending : t.finish <= sim.time}
        recorded == [sim EXCEPT !.pending = @ \ ended,
                                !.finished = @ \o InIdOrder(ended)]
    IN IF sim.perpetual THEN SpawnN(recorded, Cardinality(ended))
       ELSE recorded

\* No trip that ended is still waiting to be recorded.
Committed(sim) == \A t \in sim.pending : t.finish > sim.time

is_done(sim) == sim.pending = {}

\* sim.save(): the whole engine state, named by scenario and tick.
SavePath(sim) ==
    [kind |-> "save", name |-> sim.scenario_name, tick |-> sim.time]

Snapshot(sim) == sim

\* sim::init::load: a map gives a fresh engine, seeded from the flag or, when
\* the flag is absent, from entropy; it keeps the scenario's name and the
\* fourth argument, of which the specification says nothing.  A scenario of
\* perpetual demand gives an engine that never runs out of trips.  A
\* savestate gives back what was saved.
SimLoad(load, scenario_name, rng_seed, fourth, entropy, files) ==
    IF load.kind = "map"
    THEN [SimNew(IF rng_seed = None THEN entropy
                 ELSE RngSeeded(rng_seed[1]))
            EXCEPT !.scenario_name = scenario_name,
                   !.handed = fourth,
                   !.perpetual = (load.name = "perpetual")]
    ELSE files[load]

(* --------------------------- headless main ---------------------------- *)

VARIABLES
    pc,       \* where the running invocation is; "idle" between invocations
    flags,    \* its command-line flags
    sim,      \* its engine
    save_at,  \* its parsed save_at
    cb,       \* run_until_done: the halt condition to evaluate next
    disk,     \* the savestates written so far: path -> snapshot
    run,      \* what this invocation did (observation only)
    past,     \* what the invocation before did (observation only)
    bake,     \* prebake: the scenario, the histograms, the results, the file
    ui        \* the GUI: the loaded map, the state shown, what its menu did

vars == <<pc, flags, sim, save_at, cb, disk, run, past, bake, ui>>

\* The halt conditions main registers (main.rs:69).
Callbacks == <<"save_at">>

NoFlags == [load |-> MapLoad, rng_seed |-> None, save_at |-> None,
            big_sim |-> FALSE, scenario_name |-> ScenarioName]

NoRun == [file |-> None, input |-> SimNew(0), entry |-> SimNew(0),
          spawned |-> 0, profile |-> "none",
          iter |-> 0, evals |-> <<>>, trace |-> <<>>, saved |-> <<>>,
          stop |-> FALSE, done |-> FALSE, after |-> 0, save_failed |-> FALSE,
          outcome |-> "none"]

FlagSets ==
    { [load |-> l, rng_seed |-> s, save_at |-> a, big_sim |-> b,
       scenario_name |-> ScenarioName] :
        l \in {MapLoad} \cup DOMAIN disk,
        s \in {None} \cup {Some(x) : x \in Seeds},
        a \in {None} \cup {Some(t) : t \in SaveAtTexts},
        b \in BOOLEAN }

EmptyMap == [m \in {} |-> 0]

NoUi == [state |-> "none", map |-> "", load |-> "", challenge |-> None,
         mode |-> None, cameras |-> {}, rebuilt |-> 0, events |-> 0,
         wizard |-> None, screensaver |-> FALSE, stack |-> <<>>,
         last |-> None]

NoBake == [scenario |-> <<>>, map_name |-> "", flags |-> None,
           distribs |-> EmptyMap, results |-> [faster_trips |-> EmptyMap],
           file |-> None, writes |-> 0, eval |-> None]

Init ==
    /\ pc = "idle"
    /\ flags = NoFlags
    /\ sim = SimNew(0)
    /\ save_at = None
    /\ cb = 1
    /\ disk = <<>>
    /\ run = NoRun
    /\ past = <<>>
    /\ bake = NoBake
    /\ ui = NoUi

\* The invocations that ended so far.
RunsEnded == IF past = <<>> THEN 0 ELSE past[1].nth

\* The program is started with some flags.
Start ==
    /\ pc = "idle"
    /\ RunsEnded < MaxRuns
    /\ \E f \in FlagSets : flags' = f
    /\ pc' = "load"
    /\ sim' = SimNew(0)
    /\ save_at' = None
    /\ cb' = 1
    /\ run' = NoRun
    /\ UNCHANGED <<disk, past, bake, ui>>

\* A slip: main hands no seed to load.
LoadSeed_Dropped(f) == None

\* main.rs:42: the seed main hands to load.
LoadSeed(f) == f.rng_seed

\* main.rs:43: the seconds of the fourth argument of load.
FromSeconds == 30

\* main.rs:43: Some(sim::Tick::from_seconds(30)), the fourth argument of
\* load; what a Tick of 30 seconds is in ticks is the engine's matter.
FourthArgument == Some([from_seconds |-> FromSeconds])

\* main.rs:39-44
MainLoad ==
    /\ pc = "load"
    /\ \E e \in EntropySeeds :
         sim' = SimLoad(flags.load, flags.scenario_name, LoadSeed(flags),
                        FourthArgument, e, disk)
    /\ run' = [run EXCEPT !.input = sim',
                          !.file = IF flags.load.kind = "map" THEN None
                                   ELSE Some(disk[flags.load])]
    /\ pc' = "spawn"
    /\ UNCHANGED <<flags, save_at, cb, disk, past, bake, ui>>

\* A slip: demand is spawned whatever the loaded clock says.
SpawnGuard_Always(s) == TRUE

\* main.rs:46
SpawnGuard(s) == s.time = TickZero

\* A slip: the small profile is spawned whatever big_sim says.
SpawnProfile_AlwaysSmall(big) == "small"

\* main.rs:47-52: which demand profile is spawned.
SpawnProfile(big) == IF big THEN "big" ELSE "small"

\* main.rs:46-53
MainSpawn ==
    /\ pc = "spawn"
    /\ LET profile == IF SpawnGuard(sim) THEN SpawnProfile(flags.big_sim)
                      ELSE "none"
       IN /\ sim' = CASE profile = "big" -> big_spawn(sim)
                      [] profile = "small" -> small_spawn(sim)
                      [] OTHER -> sim
          /\ run' = [run EXCEPT
                       !.spawned = IF profile = "none" THEN @ ELSE @ + 1,
                       !.profile = profile]
    /\ pc' = "parse"
    /\ UNCHANGED <<flags, save_at, cb, disk, past, bake, ui>>

\* A slip: the text that does not parse is taken as no save_at at all.
OnBadSaveAt_Default == "default"

\* main.rs:55-63: what a save_at text that does not parse leads to.
OnBadSaveAt == "panic"

\* main.rs:55-63
MainParseSaveAt ==
    /\ pc = "parse"
    /\ LET parsed == IF flags.save_at = None THEN None
                     ELSE TickParse(flags.save_at[1])
           bad == flags.save_at # None /\ parsed = None
       IN IF bad /\ OnBadSaveAt = "panic"
          THEN /\ pc' = "panic"
               /\ run' = [run EXCEPT !.outcome = "bad_save_at"]
               /\ UNCHANGED save_at
          ELSE /\ pc' = "step"
               /\ save_at' = parsed
               /\ run' = [run EXCEPT !.entry = sim]
    /\ UNCHANGED <<flags, sim, cb, disk, past, bake, ui>>

(* --------------------------- run_until_done --------------------------- *)

\* The loop advances the engine by one step ...
RunStep ==
    /\ pc = "step"
    /\ sim.time < MaxTicks
    /\ sim' = SimAdvance(sim)
    /\ run' = [run EXCEPT !.iter = @ + 1, !.evals = <<>>,
                          !.after = IF run.stop \/ run.done THEN @ + 1 ELSE @]
    /\ pc' = "record"
    /\ UNCHANGED <<flags, save_at, cb, disk, past, bake, ui>>

\* A slip: the loop asks for completion right after the step.
AfterStep_SkipsConditions == "is_done"

\* Where the loop goes once the step is complete.
AfterStep == "callbacks"

\* ... the step ends with the trips that ended recorded ...
RunRecord ==
    /\ pc = "record"
    /\ sim' = SimRecord(sim)
    /\ run' = [run EXCEPT !.trace = Append(@, [time |-> sim'.time,
                                              ledger |-> sim'.finished])]
    /\ pc' = AfterStep
    /\ cb' = 1
    /\ UNCHANGED <<flags, save_at, disk, past, bake, ui>>

\* A slip: the closure fires at or after save_at.
ClosureFires_AtOrAfter(s, at) == at # None /\ s.time >= at[1]

\* main.rs:70: the closure's test.
ClosureFires(s, at) == Some(s.time) = at

\* A slip: the closure asks to stop whatever its test says.
ClosureResult_AlwaysStops(fires) == TRUE

\* A slip: the closure saves and lets the run go on.
ClosureResult_NeverStops(fires) == FALSE

\* main.rs:70-75: what the closure returns.
ClosureResult(fires) == fires

\* How sim.save() tells of a failed write is the engine's matter and not
\* known: it panics, or it returns the failure to its caller.  The closure
\* (main.rs:71) calls it as a statement: what it returns is dropped.
SaveOutcomes == {"written", "panics", "returns_failure"}

\* Where the loop goes after a halt condition returned ret; last tells
\* whether it was the last one registered.
AfterCallback(ret, last) ==
    IF ret THEN "exit" ELSE IF last THEN "is_done" ELSE "callbacks"

\* A slip: the loop goes on although the engine is done.
AfterIsDone_NeverEnds(d) == "step"

\* Where the loop goes after asking the engine whether it is done.
AfterIsDone(d) == IF d THEN "exit" ELSE "step"

\* ... then every halt condition is evaluated, in registration order; the
\* one main registers saves and asks to stop when the clock is at save_at.
\* A save that panics aborts the run; after a save that returns, written
\* or not, the closure returns true.
RunCallback ==
    /\ pc = "callbacks"
    /\ cb <= Len(Callbacks)
    /\ LET fires == ClosureFires(sim, save_at)
           eval == [cb |-> cb, iter |-> run.iter, time |-> sim.time,
                    committed |-> Committed(sim)]
       IN
       \E io \in SaveOutcomes :
         /\ fires \/ io = "written"
         /\ LET wrote == fires /\ io = "written"
                failed == fires /\ io # "written"
                ret == ClosureResult(fires)
            IN /\ disk' = IF wrote
                          THEN [p \in DOMAIN disk \cup {SavePath(sim)} |->
                                  IF p = SavePath(sim) THEN Snapshot(sim)
                                  ELSE disk[p]]
                          ELSE disk
               /\ IF fires /\ io = "panics"
                  THEN /\ pc' = "panic"
                       /\ cb' = cb
                       /\ run' = [run EXCEPT !.evals = Append(@, eval),
                                             !.save_failed = TRUE,
                                             !.outcome = "save_failed"]
                  ELSE /\ run' = [run EXCEPT
                                    !.evals = Append(@, eval),
                                    !.save_failed = @ \/ failed,
                                    !.saved = IF wrote
                                              THEN Append(@, [path |-> SavePath(sim),
                                                              snap |-> Snapshot(sim),
                                                              at |-> save_at])
                                              ELSE @,
                                    !.stop = @ \/ ret,
                                    !.outcome = IF ret THEN "stopped" ELSE @]
                       /\ pc' = AfterCallback(ret, cb = Len(Callbacks))
                       /\ cb' = IF ret THEN cb ELSE cb + 1
    /\ UNCHANGED <<flags, sim, save_at, past, bake, ui>>

\* ... and the loop ends when the engine reports completion.
RunIsDone ==
    /\ pc = "is_done"
    /\ pc' = AfterIsDone(is_done(sim))
    /\ run' = IF is_done(sim)
              THEN [run EXCEPT !.done = TRUE, !.outcome = "done"]
              ELSE run
    /\ UNCHANGED <<flags, sim, save_at, cb, disk, past, bake, ui>>

\* The process ends, by returning from main or by a panic; what it did is
\* kept until the next one ends.
EndProcess ==
    /\ pc \in {"exit", "panic"}
    /\ past' = << [flags |-> flags, run |-> run, final |-> sim,
                   how |-> pc, nth |-> RunsEnded + 1] >>
    /\ pc' = "idle"
    /\ UNCHANGED <<flags, sim, save_at, cb, disk, run, bake, ui>>

Next ==
    \/ Start
    \/ MainLoad
    \/ MainSpawn
    \/ MainParseSaveAt
    \/ RunStep
    \/ RunRecord
    \/ RunCallback
    \/ RunIsDone
    \/ EndProcess

Spec == Init /\ [][Next]_vars

\* The program is started, with a seed and without save_at, on a scenario
\* of perpetual demand.
StartPerpetual ==
    /\ pc = "idle"
    /\ RunsEnded < MaxRuns
    /\ \E s \in {Some(x) : x \in Seeds}, b \in BOOLEAN :
         flags' = [load |-> PerpetualLoad, rng_seed |-> s, save_at |-> None,
                   big_sim |-> b, scenario_name |-> ScenarioName]
    /\ pc' = "load"
    /\ sim' = SimNew(0)
    /\ save_at' = None
    /\ cb' = 1
    /\ run' = NoRun
    /\ UNCHANGED <<disk, past, bake, ui>>

\* The process, once in run_until_done, keeps executing: the loop is one
\* thread that nothing suspends.
LoopStep == RunStep \/ RunRecord \/ RunCallback \/ RunIsDone

FairSpec == Spec /\ WF_vars(LoopStep)

\* The invocations of Spec and those on perpetual demand.
DemandSpec == Init /\ [][Next \/ StartPerpetual]_vars /\ WF_vars(LoopStep)

(* ------------------------------ prebake ------------------------------ *)

ModeSet == {Modes[i] : i \in 1..Len(Modes)}

\* The minutes a scheduled trip takes: a short one, one that takes the whole
\* day, one that is still under way when the day ends.
BakeDurations == {1, EndOfDay, EndOfDay + 2}

\* A scenario file: the trips it schedules, all departing at the start; a
\* trip longer than the day does not end in it.
Scenarios ==
    UNION { [1..n -> [mode : ModeSet, dt : BakeDurations]] :
            n \in 0..MaxScenario }

\* challenges.rs:152
PrebakeSeed == 42

\* challenges.rs:145-154
PrebakeFlags ==
    [load |-> "weekday_typical_traffic_from_psrc", use_map_fixes |-> TRUE,
     rng_seed |-> Some(PrebakeSeed), opts |-> "prebaked"]

\* SimFlags::load of a scenario: a fresh engine with the scenario's trips.
ScenarioSim(f, scenario) ==
    [SimNew(RngSeeded(f.rng_seed[1])) EXCEPT
       !.next_id = Len(scenario) + 1,
       !.pending = { [id |-> i, mode |-> scenario[i].mode,
                      dt |-> scenario[i].dt,
                      finish |-> TickZero + scenario[i].dt] :
                     i \in 1..Len(scenario) }]

\* sim.timed_step: steps until the clock has moved on by dt.
RECURSIVE TimedStep(_, _)
TimedStep(s, until) ==
    IF s.time >= until THEN s
    ELSE TimedStep(SimRecord(SimAdvance(s)), until)

\* geom::DurationHistogram: how many durations, and how often each.
EmptyHistogram == [count |-> 0, seen |-> [d \in {} |-> 0]]

HistAdd(h, dt) ==
    [count |-> h.count + 1,
     seen |-> [d \in DOMAIN h.seen \cup {dt} |->
                 IF d = dt
                 THEN (IF d \in DOMAIN h.seen THEN h.seen[d] ELSE 0) + 1
                 ELSE h.seen[d]]]

\* How many of the durations seen are at most d.
RECURSIVE CountUpTo(_, _)
CountUpTo(h, d) ==
    IF d <= 0 THEN 0
    ELSE CountUpTo(h, d - 1) + (IF d \in DOMAIN h.seen THEN h.seen[d] ELSE 0)

SetMin(S) == CHOOSE x \in S : \A y \in S : x <= y

SetMax(S) == CHOOSE x \in S : \A y \in S : x >= y

\* The least duration with at least the share num/den of the durations at
\* or below it.
Percentile(h, num, den) ==
    SetMin({d \in DOMAIN h.seen : CountUpTo(h, d) * den >= h.count * num})

\* DurationHistogram::to_stats: the summary of a histogram.
ToStats(h) ==
    IF h.count = 0 THEN [count |-> 0]
    ELSE [count |-> h.count, min |-> SetMin(DOMAIN h.seen),
          p50 |-> Percentile(h, 1, 2), max |-> SetMax(DOMAIN h.seen)]

\* A slip: no histogram is inserted before the trips are added.
InitDistribs_Empty == EmptyMap

\* A slip: one travel mode is left out of the list.
InitDistribs_NoTransit == [m \in ModeSet \ {"Transit"} |-> EmptyHistogram]

\* challenges.rs:159-167
InitDistribs == [m \in ModeSet |-> EmptyHistogram]

\* A slip: the trip's histogram is inserted anew instead of added to.
AddTrip_Replaces(distribs, m, dt) ==
    [distribs EXCEPT ![m] = HistAdd(EmptyHistogram, dt)]

\* challenges.rs:169
AddTrip(distribs, m, dt) == [distribs EXCEPT ![m] = HistAdd(@, dt)]

\* challenges.rs:168-170
RECURSIVE AddTrips(_, _)
AddTrips(distribs, trips) ==
    IF trips = <<>> THEN distribs
    ELSE AddTrips(AddTrip(distribs, Head(trips).mode, Head(trips).dt),
                  Tail(trips))

\* challenges.rs:171-173
InsertStats(faster_trips, distribs) ==
    [m \in DOMAIN faster_trips \cup DOMAIN distribs |->
       IF m \in DOMAIN distribs THEN ToStats(distribs[m])
       ELSE faster_trips[m]]

BakeInit ==
    /\ pc = "bake_start"
    /\ flags = NoFlags
    /\ sim = SimNew(0)
    /\ save_at = None
    /\ cb = 1
    /\ disk = <<>>
    /\ run = NoRun
    /\ past = <<>>
    /\ \E sc \in Scenarios : bake = [NoBake EXCEPT !.scenario = sc]
    /\ ui = NoUi

\* A slip: another map is prebaked.
PrebakeMap_Other == "23rd"

\* challenges.rs:138: the map prebake records the baseline on.
PrebakeMap == "montlake"

\* challenges.rs:133-138
BakeStart ==
    /\ pc = "bake_start"
    /\ bake' = [bake EXCEPT !.results = [faster_trips |-> EmptyMap],
                            !.map_name = PrebakeMap,
                            !.flags = Some(PrebakeFlags)]
    /\ pc' = "bake_load"
    /\ UNCHANGED <<flags, sim, save_at, cb, disk, run, past, ui>>

\* challenges.rs:145-155
BakeLoad ==
    /\ pc = "bake_load"
    /\ sim' = ScenarioSim(bake.flags[1], bake.scenario)
    /\ pc' = "bake_step"
    /\ UNCHANGED <<flags, save_at, cb, disk, run, past, bake, ui>>

\* A slip: the run is cut one tick short of the day.
StepFor_Short == EndOfDay - 1

\* challenges.rs:156: how long prebake steps the engine for.
StepFor == EndOfDay

\* challenges.rs:156
BakeTimedStep ==
    /\ pc = "bake_step"
    /\ sim' = TimedStep(sim, sim.time + StepFor)
    /\ pc' = "bake_collect"
    /\ UNCHANGED <<flags, save_at, cb, disk, run, past, bake, ui>>

\* challenges.rs:169: get_mut(&m).unwrap() panics on a mode with no histogram.
LookupFails(distribs, trips) ==
    \E i \in 1..Len(trips) : trips[i].mode \notin DOMAIN distribs

\* challenges.rs:158-170
BakeCollect ==
    /\ pc = "bake_collect"
    /\ IF LookupFails(InitDistribs, sim.finished)
       THEN /\ pc' = "bake_panic"
            /\ bake' = [bake EXCEPT !.distribs = InitDistribs]
       ELSE /\ pc' = "bake_stats"
            /\ bake' = [bake EXCEPT
                          !.distribs = AddTrips(InitDistribs, sim.finished)]
    /\ UNCHANGED <<flags, sim, save_at, cb, disk, run, past, ui>>

\* challenges.rs:171-177
BakeStats ==
    /\ pc = "bake_stats"
    /\ bake' = [bake EXCEPT
                  !.results.faster_trips = InsertStats(@, bake.distribs)]
    /\ pc' = "bake_write"
    /\ UNCHANGED <<flags, sim, save_at, cb, disk, run, past, ui>>

\* challenges.rs:139: write_json(..).unwrap(): the results are written, or
\* the write fails and prebake panics with nothing persisted.
BakeWrite ==
    /\ pc = "bake_write"
    /\ \E io_ok \in BOOLEAN :
         IF io_ok
         THEN /\ bake' = [bake EXCEPT !.file = Some(bake.results),
                                      !.writes = @ + 1]
              /\ pc' = "bake_done"
         ELSE /\ bake' = bake
              /\ pc' = "write_panic"
    /\ UNCHANGED <<flags, sim, save_at, cb, disk, run, past, ui>>

\* challenges.rs:24-62: the catalog, in the order of the vector.
all_challenges ==
    << [title |-> "Speed up route 48 (just Montlake area)",
        map_name |-> "montlake",
        gameplay |-> [kind |-> "OptimizeBus", arg |-> "48"]],
       [title |-> "Speed up route 48 (larger section)",
        map_name |-> "23rd",
        gameplay |-> [kind |-> "OptimizeBus", arg |-> "48"]],
       [title |-> "Gridlock all of the everything",
        map_name |-> "montlake",
        gameplay |-> [kind |-> "CreateGridlock", arg |-> ""]],
       [title |-> "Speed up all bike trips",
        map_name |-> "montlake",
        gameplay |-> [kind |-> "FasterTrips", arg |-> "Bike"]],
       [title |-> "Speed up all car trips",
        map_name |-> "montlake",
        gameplay |-> [kind |-> "FasterTrips", arg |-> "Drive"]] >>

ChallengeSet == { all_challenges[i] : i \in 1..Len(all_challenges) }

FasterTripsChallenges ==
    { c \in ChallengeSet : c.gameplay.kind = "FasterTrips" }

\* challenges.rs:50: "by at least 1 minute"; a tick of a prebake run is a
\* minute.
BikeImprovement == 1

\* challenges.rs:56: "by at least 5 minutes".
DriveImprovement == 5

\* A slip: the evaluator applies no threshold.
RequiredImprovement_None(c) == 0

\* challenges.rs:48-60: the improvement the description of a FasterTrips
\* challenge asks for.
RequiredImprovement(c) ==
    IF c.gameplay.arg = "Bike" THEN BikeImprovement ELSE DriveImprovement

HasMedian(stats, m) == m \in DOMAIN stats /\ stats[m].count > 0

\* ChallengeEvaluator::evaluate for FasterTrips(mode): pass iff the current
\* median is at most the baseline median less the required improvement.
Evaluate(c, current, baseline) ==
    LET m == c.gameplay.arg IN
    IF HasMedian(current, m) /\ HasMedian(baseline, m)
       /\ current[m].p50 <= baseline[m].p50 - RequiredImprovement(c)
    THEN "Pass" ELSE "Fail"

\* No trip takes less than a minute.
Clamp(d) == IF d < 1 THEN 1 ELSE d

\* The minutes an edit of the network takes off the trips of a mode.
Deltas == {-1, 0, BikeImprovement, DriveImprovement - 1, DriveImprovement}

\* The demand on a network edited for one travel mode: the trips of that
\* mode take delta less (more, when delta is negative); delta = 0 is the
\* unmodified network.
Modified(scenario, m, delta) ==
    [i \in DOMAIN scenario |->
       IF scenario[i].mode = m
       THEN [scenario[i] EXCEPT !.dt = Clamp(@ - delta)]
       ELSE scenario[i]]

\* The trips that end in a run of the day on the given demand.
RunLedger(scenario) ==
    TimedStep(ScenarioSim(PrebakeFlags, scenario), StepFor).finished

\* The statistics of a run of the day on the given demand, computed as
\* prebake_faster_trips computes the baseline's.
RunStats(scenario) ==
    InsertStats(EmptyMap, AddTrips(InitDistribs, RunLedger(scenario)))

\* A challenge is scored: the current run against the persisted baseline.
BakeEvaluate ==
    /\ pc = "bake_done"
    /\ \E c \in FasterTripsChallenges, delta \in Deltas :
         LET edited == Modified(bake.scenario, c.gameplay.arg, delta)
             current == RunStats(edited)
         IN bake' = [bake EXCEPT !.eval =
                       Some([challenge |-> c, delta |-> delta,
                             ledger |-> RunLedger(edited),
                             current |-> current,
                             verdict |-> Evaluate(c, current,
                                                  bake.file[1].faster_trips)])]
    /\ pc' = "eval_done"
    /\ UNCHANGED <<flags, sim, save_at, cb, disk, run, past, ui>>

BakeNext ==
    \/ BakeEvaluate
    \/ BakeStart
    \/ BakeLoad
    \/ BakeTimedStep
    \/ BakeCollect
    \/ BakeStats
    \/ BakeWrite

PrebakeSpec == BakeInit /\ [][BakeNext]_vars

(* ------------------------- challenge splash -------------------------- *)

\* The maps there are to load.
MapNames == {"montlake", "23rd", "caphill"}

\* abstutil::path_map: the file of the map of that name.
path_map(name) == [kind |-> "map", name |-> name]

\* UI::new(flags, ..): the UI built around the map flags.sim_flags.load
\* names; get_name of that map is the name its file goes by.
UINew(load) == load.name

\* challenges.rs:83-89: the entries of the splash's menu.
MenuActions ==
    {"back to challenges", "start challenge", "load existing proposal"}

ChallengeInit ==
    /\ pc = "gui"
    /\ flags = NoFlags
    /\ sim = SimNew(0)
    /\ save_at = None
    /\ cb = 1
    /\ disk = <<>>
    /\ run = NoRun
    /\ past = <<>>
    /\ bake = NoBake
    /\ \E m \in MapNames :
         ui = [NoUi EXCEPT !.state = "picker", !.map = UINew(path_map(m)),
                           !.load = path_map(m)]

\* challenges.rs:64-94: the picker's wizard hands the chosen challenge to a
\* ChallengeSplash, which replaces the picker.
PickerChoose ==
    /\ pc = "gui"
    /\ ui.state = "picker"
    /\ ui.events < MaxEvents
    /\ \E c \in ChallengeSet :
         ui' = [ui EXCEPT !.state = "splash", !.challenge = Some(c),
                          !.events = @ + 1,
                          !.last = Some([input |-> {},
                                         transition |-> "Replace(splash)"])]
    /\ UNCHANGED <<pc, flags, sim, save_at, cb, disk, run, past, bake>>

\* A slip: the UI is never rebuilt.
NeedsRebuild_Never(c, loaded) == FALSE

\* challenges.rs:109: is the challenge's map another than the one loaded?
NeedsRebuild(c, loaded) == c.map_name # loaded

\* challenges.rs:102-122: ChallengeSplash::event; chosen holds the menu
\* actions that menu.action(..) answers true for after menu.event.
ChallengeSplashEvent ==
    /\ pc = "gui"
    /\ ui.state = "splash"
    /\ ui.events < MaxEvents
    /\ \E chosen \in SUBSET MenuActions :
         LET c == ui.challenge[1]
             rebuild == NeedsRebuild(c, ui.map)
         IN
         IF "back to challenges" \in chosen
         THEN ui' = [ui EXCEPT !.state = "picker", !.challenge = None,
                               !.events = @ + 1,
                               !.last = Some([input |-> chosen,
                                              transition |-> "Replace(picker)"])]
         ELSE IF "start challenge" \in chosen
         THEN ui' = [ui EXCEPT
                       !.cameras = IF rebuild THEN @ \cup {ui.map} ELSE @,
                       !.load = IF rebuild THEN path_map(c.map_name) ELSE @,
                       !.map = IF rebuild THEN UINew(path_map(c.map_name))
                               ELSE @,
                       !.rebuilt = IF rebuild THEN @ + 1 ELSE @,
                       !.state = "sandbox",
                       !.mode = Some(c.gameplay),
                       !.events = @ + 1,
                       !.last = Some([input |-> chosen,
                                      transition |-> "Replace(sandbox)"])]
         ELSE ui' = [ui EXCEPT !.events = @ + 1,
                               !.last = Some([input |-> chosen,
                                              transition |-> "Keep"])]
    /\ UNCHANGED <<pc, flags, sim, save_at, cb, disk, run, past, bake>>

ChallengeNext ==
    \/ PickerChoose
    \/ ChallengeSplashEvent

ChallengeSpec == ChallengeInit /\ [][ChallengeNext]_vars

(* --------------------------- splash screen --------------------------- *)

\* splash_screen.rs:124-132: the labels.
sandbox == "Sandbox mode"

load_map == "Load another map"

edit == "Edit map"

tutorial == "Tutorial"

debug == "Debug mode"

mission == "Mission Edit Mode"

abtest == "A/B Test Mode"

about == "About"

quit == "Quit"

\* A slip: the last entry is offered under another label than its branch
\* tests for.
MenuEntries_Renamed ==
    <<sandbox, load_map, edit, tutorial, debug, mission, abtest, about,
      "Exit">>

\* splash_screen.rs:138-148: the entries the menu offers.
MenuEntries ==
    <<sandbox, load_map, edit, tutorial, debug, mission, abtest, about,
      quit>>

\* splash_screen.rs:152-203: the labels the guards of the match test for, in
\* the order of the arms.
BranchLabels ==
    <<sandbox, load_map, edit, tutorial, debug, mission, abtest, about,
      quit>>

SeqRange(seq) == { seq[i] : i \in 1..Len(seq) }

\* The first arm whose guard holds of x; "_" is the fallback arm.
Branch(x) ==
    IF x \in SeqRange(BranchLabels)
    THEN BranchLabels[CHOOSE i \in 1..Len(BranchLabels) :
                        /\ BranchLabels[i] = x
                        /\ \A j \in 1..(i - 1) : BranchLabels[j] # x]
    ELSE "_"

\* splash_screen.rs:152, 178-182: the state an arm pushes.
Pushed(b) ==
    CASE b = sandbox -> "SandboxMode"
      [] b = edit -> "EditMode"
      [] b = tutorial -> "TutorialMode"
      [] b = debug -> "DebugMode"
      [] b = mission -> "MissionEditMode"
      [] b = abtest -> "PickABTest"

\* What the user does in one event: nothing, escape, enter, a menu entry or
\* a map's name. The wizard hands it to the one question that is open.
NoInput == "(none)"

Escape == "(escape)"

Enter == "(enter)"

Inputs == {NoInput, Escape, Enter} \cup SeqRange(MenuEntries) \cup MapNames

\* splash_screen: the transition it returns ("None" for Option::None), and
\* what it leaves of the wizard's answers and of the UI. The wizard keeps the
\* answers given, so a question once answered answers the same again.
splash_screen(u, inp) ==
    LET q1open == u.wizard = <<>>
        answers == IF q1open /\ inp \in SeqRange(MenuEntries) THEN <<inp>>
                   ELSE u.wizard
        none == [ui |-> [u EXCEPT !.wizard = answers], branch |-> "",
                 transition |-> "None", state |-> "", aborted |-> FALSE]
        fresh == [u EXCEPT !.wizard = <<>>,
                           !.screensaver = u.screensaver]
    IN
    IF answers = <<>>
    THEN [none EXCEPT !.aborted = (inp = Escape)]
    ELSE LET b == Branch(answers[1])
             with(t, st) == [none EXCEPT !.branch = b, !.transition = t,
                                         !.state = st]
         IN
         CASE b = "_" -> with("unreachable", "")
           [] b = load_map ->
                LET name == IF Len(answers) = 2 THEN Some(answers[2])
                            ELSE IF ~q1open /\ inp \in MapNames \ {u.map}
                            THEN Some(inp) ELSE None
                IN IF name # None
                   THEN [with("Push", "SandboxMode") EXCEPT
                           !.ui = [u EXCEPT
                                     !.wizard = <<answers[1], name[1]>>,
                                     !.load = path_map(name[1]),
                                     !.map = UINew(path_map(name[1])),
                                     !.rebuilt = @ + 1]]
                   ELSE IF ~q1open /\ inp = Escape
                   THEN [with("Replace", "SplashScreen") EXCEPT
                           !.ui = fresh, !.aborted = TRUE]
                   ELSE with("None", "")
           [] b = about ->
                IF ~q1open /\ inp = Enter
                THEN [with("Replace", "SplashScreen") EXCEPT !.ui = fresh]
                ELSE with("None", "")
           [] b = quit -> with("Pop", "")
           [] OTHER -> with("Push", Pushed(b))

SplashInit ==
    /\ pc = "gui"
    /\ flags = NoFlags
    /\ sim = SimNew(0)
    /\ save_at = None
    /\ cb = 1
    /\ disk = <<>>
    /\ run = NoRun
    /\ past = <<>>
    /\ bake = NoBake
    /\ \E m \in MapNames, saver \in BOOLEAN :
         ui = [NoUi EXCEPT !.state = "splash_screen",
                           !.map = UINew(path_map(m)), !.load = path_map(m),
                           !.wizard = <<>>, !.screensaver = saver,
                           !.stack = <<"SplashScreen">>]

Top(stack) == stack[Len(stack)]

Front(stack) == SubSeq(stack, 1, Len(stack) - 1)

\* splash_screen.rs:44-66: SplashScreen::event.
SplashScreenEvent ==
    /\ pc = "gui"
    /\ ui.stack # <<>>
    /\ Top(ui.stack) = "SplashScreen"
    /\ ui.events < MaxEvents
    /\ \E inp \in Inputs :
         LET r == splash_screen(ui, inp)
             t == IF r.transition # "None" THEN r.transition
                  ELSE IF r.aborted THEN "Pop" ELSE "Keep"
         IN /\ pc' = IF t = "unreachable" THEN "gui_panic" ELSE pc
            /\ ui' = [r.ui EXCEPT
                        !.stack = CASE t = "Pop" -> Front(@)
                                    [] t = "Push" -> Append(@, r.state)
                                    [] t = "Replace" ->
                                         Append(Front(@), r.state)
                                    [] OTHER -> @,
                        !.events = @ + 1,
                        !.last = Some([input |-> inp, branch |-> r.branch,
                                       transition |-> t,
                                       state |-> r.state])]
    /\ UNCHANGED <<flags, sim, save_at, cb, disk, run, past, bake>>

\* The state pushed on top of the splash screen ends with Transition::Pop:
\* the splash screen, with its wizard as it was, is shown again.
ModeLeaves ==
    /\ pc = "gui"
    /\ ui.stack # <<>>
    /\ Top(ui.stack) # "SplashScreen"
    /\ ui.events < MaxEvents
    /\ ui' = [ui EXCEPT !.stack = Front(@), !.events = @ + 1,
                        !.last = Some([input |-> NoInput, branch |-> "",
                                       transition |-> "Pop",
                                       state |-> ""])]
    /\ UNCHANGED <<pc, flags, sim, save_at, cb, disk, run, past, bake>>

SplashNext ==
    \/ SplashScreenEvent
    \/ ModeLeaves

SplashSpec == SplashInit /\ [][SplashNext]_vars

(* ------------------------------ claims -------------------------------- *)

InLoop == pc \in {"step", "record", "callbacks", "is_done"}

\* C1: the loop of run_until_done stops exactly when the engine reported
\* completion or a halt condition returned true: the engine is never advanced
\* after either, the loop is left for no other reason (a panic aside), and
\* while neither has happened the loop goes on to the next advance.
C1_LoopStopsExactly ==
    /\ run.after = 0
    /\ (pc = "exit" => run.stop \/ run.done)
    /\ (run.stop \/ run.done => pc \in {"exit", "idle"})
    /\ (InLoop => ENABLED (RunStep \/ RunRecord \/ RunCallback \/ RunIsDone))
    /\ (pc = "is_done" /\ ~is_done(sim) => ENABLED (RunIsDone /\ pc' = "step"))

C1_Witness ==
    /\ pc = "exit"
    /\ run.stop
    /\ ~is_done(sim)
    /\ run.iter >= 2

\* C2: in every iteration the engine is advanced by one step first, then
\* every registered halt condition is evaluated once, in registration order,
\* on the committed state of this iteration, before the next advance; none is
\* evaluated while an advance is under way.
C2_StepThenEveryCondition ==
    /\ \A i \in 1..Len(run.evals) :
         /\ run.evals[i].cb = i
         /\ run.evals[i].iter = run.iter
         /\ run.evals[i].time = sim.time
         /\ run.evals[i].committed
    /\ \A i \in 1..Len(run.trace) : run.trace[i].time = run.entry.time + i
    /\ Len(run.trace) \in {run.iter, run.iter - 1}
    /\ (pc = "record" => run.evals = <<>> /\ Len(run.trace) = run.iter - 1)
    /\ (pc = "callbacks" =>
          /\ run.iter >= 1
          /\ Committed(sim)
          /\ Len(run.evals) = cb - 1)
    /\ (pc = "is_done" => Len(run.evals) = Len(Callbacks))
    /\ (pc = "step" /\ run.iter >= 1 => Len(run.evals) = Len(Callbacks))
    /\ (pc = "exit" /\ run.done => Len(run.evals) = Len(Callbacks))

C2_Witness ==
    /\ pc = "step"
    /\ run.iter = 2
    /\ Len(run.evals) = Len(Callbacks)
    /\ sim.finished # <<>>

\* C3: with save_at = T a savestate is written only from a committed state
\* whose clock is T, at most once in a run, and the save is over before any
\* further tick: after it the halt condition has returned true and the
\* engine is not advanced again.
C3_SaveOnlyAtT ==
    /\ Len(run.saved) <= 1
    /\ \A i \in 1..Len(run.saved) :
         /\ save_at = Some(run.saved[i].snap.time)
         /\ Committed(run.saved[i].snap)
         /\ run.saved[i].snap = sim
         /\ run.saved[i].path = SavePath(sim)
         /\ run.stop
         /\ pc \in {"exit", "idle"}
    /\ \A k \in 1..Len(past) : Len(past[k].run.saved) <= 1

\* C3: between two states of a run the savestates on disk change only in
\* the evaluation of the halt condition at clock T.
C3_DiskOnlyAtT ==
    (InLoop /\ disk' # disk) =>
      /\ pc = "callbacks"
      /\ save_at = Some(sim.time)
      /\ Committed(sim)
      /\ run.saved = <<>>
      /\ Len(run'.saved) = 1
      /\ sim' = sim
      /\ pc' = "exit"

\* C3: with save_at = T a savestate is written only after a completed step
\* with the clock at T, at most once in a run, and the run ends right after
\* the save with no further advance of the engine.
C3_SaveOnce == []C3_SaveOnlyAtT /\ [][C3_DiskOnlyAtT]_vars

C3_Witness ==
    /\ pc = "exit"
    /\ Len(run.saved) = 1
    /\ run.iter = 2
    /\ ~is_done(sim)
    /\ Len(sim.finished) = 1

BadSaveAt(f) == f.save_at # None /\ TickParse(f.save_at[1]) = None

\* C7: a save_at text that does not parse ends the run in a panic that names
\* the text: the engine is not advanced, nothing is saved, and the run does
\* not go on as if save_at were absent.
C7_BadSaveAtIsFatal ==
    /\ (BadSaveAt(flags) /\ pc \notin {"idle", "load", "spawn", "parse"} =>
          /\ pc = "panic"
          /\ run.outcome = "bad_save_at"
          /\ run.iter = 0
          /\ run.trace = <<>>
          /\ run.saved = <<>>
          /\ sim.time = run.input.time)
    /\ \A k \in 1..Len(past) :
         BadSaveAt(past[k].flags) =>
           /\ past[k].how = "panic"
           /\ past[k].run.outcome = "bad_save_at"
           /\ past[k].run.iter = 0
           /\ past[k].run.saved = <<>>

C7_Witness ==
    /\ pc = "panic"
    /\ BadSaveAt(flags)
    /\ flags.save_at = Some(<<"1", "x">>)
    /\ sim.pending # {}


\* C8: within one invocation the clock never decreases: load, spawning,
\* every step and every halt-condition evaluation (a save included) leave it
\* equal or greater, and only load and the step's advance change it.
C8_ClockMonotone ==
    [][pc # "idle" =>
         /\ sim'.time >= sim.time
         /\ (pc \notin {"load", "step"} => sim'.time = sim.time)]_vars

C8_Witness ==
    /\ pc = "exit"
    /\ run.input.time > TickZero
    /\ sim.time > run.input.time
    /\ run.saved # <<>>

IsPrefix(a, b) == Len(a) <= Len(b) /\ SubSeq(b, 1, Len(a)) = a

LedgerIds(s) == {s.finished[i].id : i \in 1..Len(s.finished)}

PendingIds(s) == {t.id : t \in s.pending}

\* Every trip spawned is either scheduled or in the ledger, never both, no
\* trip is in the ledger twice, and between steps every trip that ended is in
\* the ledger.
C9_EachTripOnce ==
    /\ \A i, j \in 1..Len(sim.finished) :
         sim.finished[i].id = sim.finished[j].id => i = j
    /\ LedgerIds(sim) \cap PendingIds(sim) = {}
    /\ LedgerIds(sim) \cup PendingIds(sim) = 1..(sim.next_id - 1)
    /\ (pc # "record" => Committed(sim))

\* C9: the ledger is append-only: in every step of an invocation the ledger
\* before is a prefix of the ledger after, so no record is removed or changed,
\* and every trip that ended is in it exactly once.
C9_LedgerAppendOnly ==
    /\ []C9_EachTripOnce
    /\ [][pc # "idle" => IsPrefix(sim.finished, sim'.finished)]_vars

C9_Witness ==
    /\ pc = "is_done"
    /\ Len(sim.finished) = 1
    /\ sim.pending # {}
    /\ run.iter = 2

Drop(seq, n) == SubSeq(seq, n + 1, Len(seq))

\* The engine stepped from s until it reports completion: the run that no
\* halt condition stops.
RECURSIVE RunToCompletion(_)
RunToCompletion(s) ==
    LET s1 == SimRecord(SimAdvance(s))
    IN IF is_done(s1) THEN s1 ELSE RunToCompletion(s1)

\* The invocation before, b, with an explicit seed, saved at its save_at and
\* stopped; the invocation now at its exit loaded what b saved, with the same
\* seed flag, and ran to the engine's completion.
ResumedFrom(b) ==
    /\ b.flags.rng_seed # None
    /\ Len(b.run.saved) = 1
    /\ b.run.outcome = "stopped"
    /\ pc = "exit"
    /\ run.done
    /\ flags.load = b.run.saved[1].path
    /\ flags.rng_seed = b.flags.rng_seed
    /\ run.file = Some(b.run.saved[1].snap)

\* C4: the trips a resumed run records after the tick T of the savestate are,
\* in content and order, the trips the uninterrupted run with the same seed
\* records after T (the run from the saving run's start that nothing stops);
\* the resumed run spawns no demand.
C4_SavestateFidelity ==
    \A j \in 1..Len(past) :
      ResumedFrom(past[j]) =>
        LET T == past[j].run.saved[1].snap.time
            tail == Drop(sim.finished, Len(run.input.finished))
        IN
        /\ run.spawned = 0
        /\ tail = Drop(RunToCompletion(past[j].run.entry).finished,
                       Len(TimedStep(past[j].run.entry, T).finished))

C4_Witness ==
    \E j \in 1..Len(past) :
      /\ ResumedFrom(past[j])
      /\ past[j].flags.big_sim
      /\ Len(run.input.finished) = 1
      /\ Len(sim.finished) = 2

\* C5: two invocations with identical flags, an explicit seed and the same
\* content under the load path go through the same clock values with the same
\* ledger at every tick, enter the loop with the same spawned demand and end
\* with the same ledger in the same engine state.
C5_Determinism ==
    \A k \in 1..Len(past) :
      ( /\ pc \notin {"idle", "load"}
        /\ past[k].flags = flags
        /\ flags.rng_seed # None
        /\ past[k].run.file = run.file )
      =>
        /\ run.input = past[k].run.input
        /\ IsPrefix(run.trace, past[k].run.trace)
        /\ (pc \notin {"spawn", "parse"} => run.entry = past[k].run.entry)
        /\ (pc \in {"exit", "panic"} =>
              /\ run.trace = past[k].run.trace
              /\ sim = past[k].final)

C5_Witness ==
    \E k \in 1..Len(past) :
      /\ pc = "exit"
      /\ past[k].flags = flags
      /\ flags.rng_seed # None
      /\ flags.big_sim
      /\ past[k].run.file = run.file
      /\ run.saved # <<>>
      /\ Len(sim.finished) = 1
      /\ sim.pending # {}

Permuted(seq, perm) == [i \in 1..Len(seq) |-> seq[perm[i]]]

\* C10: aggregation does not depend on the order of the finished trips: for
\* every permutation of the ledger, adding each record's duration to the
\* histogram of its mode gives the histograms, and so the statistics, that
\* the ledger's own order gives.
C10_AggregationOrderIndependent ==
    pc \in {"bake_stats", "bake_write", "bake_done"} =>
      \A perm \in Permutations(1..Len(sim.finished)) :
        LET d == AddTrips(InitDistribs, Permuted(sim.finished, perm)) IN
        /\ d = bake.distribs
        /\ (pc # "bake_stats" =>
              InsertStats(EmptyMap, d) = bake.results.faster_trips)

C10_Witness ==
    /\ pc = "bake_done"
    /\ Len(sim.finished) = 3
    /\ sim.finished[1].mode = sim.finished[3].mode
    /\ sim.finished[1].dt # sim.finished[3].dt
    /\ sim.finished[2].mode # sim.finished[1].mode

Written == {"bake_done", "eval_done"}

Inserted == {"bake_write", "write_panic"} \cup Written

Aggregated == {"bake_stats"} \cup Inserted

\* C11 as stated: a prebake run with no demand ends the day with an empty
\* ledger, and the statistics mapping computed from it has no entries.
C11_EmptyDemandNoEntries ==
    (bake.scenario = <<>> /\ pc \in Inserted) =>
      /\ sim.finished = <<>>
      /\ DOMAIN bake.results.faster_trips = {}

\* C11 amended: a prebake run with no demand ends the day with an empty
\* ledger, aggregating it does not panic, and the statistics mapping has one
\* entry per travel mode, each the statistics of a histogram with no
\* durations.
C11_EmptyDemandFourEmptyEntries ==
    bake.scenario = <<>> =>
      /\ pc # "bake_panic"
      /\ sim.finished = <<>>
      /\ sim.pending = {}
      /\ (pc \in Inserted =>
            /\ DOMAIN bake.results.faster_trips = ModeSet
            /\ \A m \in ModeSet :
                 bake.results.faster_trips[m] = ToStats(EmptyHistogram))

C11_Witness ==
    /\ pc = "bake_done"
    /\ bake.scenario = <<>>
    /\ sim.time = EndOfDay
    /\ bake.file = Some(bake.results)

\* C13: prebaking runs in a fixed order with fixed inputs: the scenario is
\* loaded with an explicit seed and with map fixes, the engine is stepped to
\* the end of the day with no halt condition, only then is the ledger
\* aggregated, and the results are written exactly once, after the
\* aggregation (when the write fails prebake panics and nothing is written);
\* nothing is written from a run that has not reached the end of the day,
\* and no run is loaded without a seed.
C13_PrebakeOrder ==
    /\ (pc # "bake_start" =>
          /\ bake.flags # None
          /\ bake.flags[1].rng_seed # None
          /\ bake.flags[1].use_map_fixes)
    /\ (pc = "bake_step" =>
          sim = ScenarioSim(bake.flags[1], bake.scenario))
    /\ (pc \in {"bake_start", "bake_load", "bake_step", "bake_collect"} =>
          /\ bake.distribs = EmptyMap
          /\ bake.results.faster_trips = EmptyMap)
    /\ (pc \in {"bake_collect", "bake_panic"} \cup Aggregated =>
          /\ sim.time = EndOfDay
          /\ sim = TimedStep(ScenarioSim(bake.flags[1], bake.scenario),
                             EndOfDay))
    /\ (pc = "bake_stats" => bake.results.faster_trips = EmptyMap)
    /\ (pc \in Aggregated =>
          bake.distribs = AddTrips(InitDistribs, sim.finished))
    /\ (pc \in Inserted =>
          bake.results.faster_trips = InsertStats(EmptyMap, bake.distribs))
    /\ (pc \notin Written => bake.file = None /\ bake.writes = 0)
    /\ (pc = "write_panic" => bake.eval = None)
    /\ (pc \in Written =>
          bake.file = Some(bake.results) /\ bake.writes = 1)

C13_Witness ==
    /\ pc = "bake_done"
    /\ bake.writes = 1
    /\ sim.time = EndOfDay
    /\ sim.pending # {}
    /\ sim.finished # <<>>
    /\ bake.flags[1].rng_seed = Some(PrebakeSeed)

ModeCount(trips, m) ==
    Cardinality({ i \in 1..Len(trips) : trips[i].mode = m })

RECURSIVE SumCounts(_, _)
SumCounts(distribs, ms) ==
    IF ms = {} THEN 0
    ELSE LET m == CHOOSE x \in ms : TRUE IN
         distribs[m].count + SumCounts(distribs, ms \ {m})

\* C20: while prebake aggregates, looking up a finished trip's mode in the
\* table of histograms never fails; every record is added to the histogram
\* of its own mode and to no other, so the counts of the four histograms add
\* up to the length of the ledger, and the resulting faster_trips has
\* exactly the four modes as keys.
C20_LookupNeverFails ==
    /\ pc # "bake_panic"
    /\ ~LookupFails(InitDistribs, sim.finished)
    /\ (pc \in Aggregated =>
          /\ DOMAIN bake.distribs = ModeSet
          /\ \A m \in ModeSet :
               bake.distribs[m].count = ModeCount(sim.finished, m)
          /\ SumCounts(bake.distribs, ModeSet) = Len(sim.finished))
    /\ (pc \in Inserted => DOMAIN bake.results.faster_trips = ModeSet)

C20_Witness ==
    /\ pc = "bake_done"
    /\ Len(sim.finished) = 3
    /\ { sim.finished[i].mode : i \in 1..3 } = {"Walk", "Transit", "Drive"}
    /\ bake.distribs["Bike"].count = 0
    /\ bake.distribs["Transit"].count = 1

\* C12 as stated: the persisted baseline is keyed by (map name, travel mode),
\* no key being a travel mode alone, and every challenge that needs a
\* baseline finds one recorded on its own map.
C12_KeyedByMapAndMode ==
    pc \in Written =>
      /\ \A k \in DOMAIN bake.file[1].faster_trips : k \notin ModeSet
      /\ \A c \in FasterTripsChallenges : bake.map_name = c.map_name

\* C12 amended: the persisted baseline is keyed by travel mode alone and is
\* recorded on one map, montlake; every FasterTrips challenge of the catalog
\* has that map as its map_name, so the baseline it is scored against was
\* recorded on its own map and holds an entry for its mode.
C12_BaselineOfOwnMap ==
    pc \in Written =>
      /\ DOMAIN bake.file[1].faster_trips = ModeSet
      /\ bake.file[1].faster_trips = RunStats(bake.scenario)
      /\ \A c \in FasterTripsChallenges :
           /\ bake.map_name = c.map_name
           /\ c.gameplay.arg \in DOMAIN bake.file[1].faster_trips

C12_Witness ==
    /\ pc = "eval_done"
    /\ bake.eval[1].challenge.map_name = "montlake"
    /\ bake.map_name = "montlake"
    /\ bake.file[1].faster_trips["Drive"].count > 0

\* The trips of mode m in a ledger, and those of them that took at most d.
TripsOf(ledger, m) == {i \in 1..Len(ledger) : ledger[i].mode = m}

TripsWithin(ledger, m, d) == {i \in TripsOf(ledger, m) : ledger[i].dt <= d}

\* The median of the durations of the trips of mode m in a ledger, counted
\* on the trips themselves: the least duration that half of them do not
\* exceed.
MedianOf(ledger, m) ==
    CHOOSE d \in {ledger[i].dt : i \in TripsOf(ledger, m)} :
      /\ 2 * Cardinality(TripsWithin(ledger, m, d))
           >= Cardinality(TripsOf(ledger, m))
      /\ \A i \in TripsOf(ledger, m) :
           ledger[i].dt < d =>
             2 * Cardinality(TripsWithin(ledger, m, ledger[i].dt))
               < Cardinality(TripsOf(ledger, m))

C14_WitnessUnmodified ==
    /\ pc = "eval_done"
    /\ bake.eval[1].delta = 0
    /\ bake.eval[1].verdict = "Fail"
    /\ TripsOf(sim.finished, "Bike") # {}

C14_WitnessShort ==
    /\ pc = "eval_done"
    /\ bake.eval[1].verdict = "Fail"
    /\ bake.eval[1].challenge.title = "Speed up all car trips"
    /\ TripsOf(sim.finished, "Drive") # {}
    /\ TripsOf(bake.eval[1].ledger, "Drive") # {}
    /\ MedianOf(bake.eval[1].ledger, "Drive") =
         MedianOf(sim.finished, "Drive") - (DriveImprovement - 1)

AfterSpawn == {"parse", "step", "record", "callbacks", "is_done", "exit",
               "panic"}

Spawned(n) == sim.next_id = run.input.next_id + n

C15_SpawnOnceAtZero ==
    /\ run.spawned <= 1
    /\ (pc \in {"load", "spawn"} => run.spawned = 0)
    /\ (pc \in AfterSpawn =>
          /\ (run.spawned = 1 <=> run.input.time = TickZero)
          /\ (run.input.time = TickZero /\ flags.big_sim =>
                run.profile = "big" /\ Spawned(BigTrips))
          /\ (run.input.time = TickZero /\ ~flags.big_sim =>
                run.profile = "small" /\ Spawned(SmallTrips))
          /\ (run.input.time > TickZero =>
                /\ flags.load.kind # "map"
                /\ run.profile = "none"
                /\ Spawned(0)
                /\ (pc = "parse" => sim = run.input)
                /\ (InLoop => run.entry = run.input)))

C15_Chain ==
    /\ (pc = "load" => pc' = "spawn")
    /\ (pc = "spawn" => pc' = "parse")
    /\ (pc = "parse" => pc' \in {"step", "panic"})
    /\ (InLoop => pc' \in {"step", "record", "callbacks", "is_done",
                          "exit", "panic"})
    /\ (pc \in {"exit", "panic"} => pc' = "idle")
    /\ (run'.spawned # run.spawned =>
          \/ pc = "spawn" /\ sim.time = TickZero
          \/ pc = "idle")
    /\ (sim'.next_id # sim.next_id => pc \in {"idle", "load", "spawn"})

\* C15: a headless run is the chain load, optional spawn, run_until_done,
\* exit: demand is spawned at most once in a run, and only when the loaded
\* engine's clock is zero; the big profile is spawned iff big_sim is set,
\* the small one otherwise; a run resumed from a savestate taken after time
\* zero spawns nothing.
C15_LinearRun == []C15_SpawnOnceAtZero /\ [][C15_Chain]_vars

C15_Witness ==
    /\ pc = "exit"
    /\ flags.big_sim
    /\ flags.load.kind # "map"
    /\ run.input.time > TickZero
    /\ run.input.pending # {}
    /\ run.spawned = 0
    /\ \E k \in 1..Len(past) :
         /\ past[k].run.profile = "big"
         /\ past[k].run.spawned = 1

\* The clock at which the engine, left alone, reports completion.
DoneTime(s) == RunToCompletion(s).time

Running == InLoop \/ (pc \in {"exit", "panic"} /\ run.outcome # "bad_save_at")

\* save_at = T lies ahead of the run and the engine is not done before T.
SaveAtAhead ==
    /\ save_at # None
    /\ run.entry.time < save_at[1]
    /\ DoneTime(run.entry) >= save_at[1]

\* save_at = T is not ahead: the run starts at or after T.
SaveAtBehind == save_at # None /\ run.entry.time >= save_at[1]

C16_AtSaveAt ==
    /\ (Running /\ SaveAtAhead =>
          /\ sim.time <= save_at[1]
          /\ ~run.done
          /\ (pc \in {"exit", "panic"} =>
                /\ sim.time = save_at[1]
                /\ run.iter = save_at[1] - run.entry.time)
          /\ (pc = "exit" =>
                /\ run.stop
                /\ (~run.save_failed =>
                      /\ Len(run.saved) = 1
                      /\ run.saved[1].snap = sim
                      /\ disk[SavePath(sim)] = sim))
          /\ (pc = "panic" => run.save_failed /\ run.saved = <<>>))
    /\ (Running /\ SaveAtBehind =>
          /\ run.saved = <<>>
          /\ ~run.stop
          /\ ~run.save_failed
          /\ pc # "panic"
          /\ (pc = "callbacks" => ~ClosureFires(sim, save_at))
          /\ \A i \in 1..Len(run.trace) : run.trace[i].time # save_at[1]
          /\ (run.done <=> pc = "exit")
          /\ (pc = "exit" =>
                /\ is_done(sim)
                /\ sim = RunToCompletion(run.entry)))

\* A run that starts at or after T leaves the savestates alone.
C16_BehindKeepsDisk == (InLoop /\ SaveAtBehind) => disk' = disk

\* The run has its clock at T after a step and the save is called there.
C16_ReachesT ==
    (pc = "step" /\ run.iter = 0 /\ SaveAtAhead)
      ~> (pc = "callbacks" /\ save_at = Some(sim.time) /\ Committed(sim))

\* The run stops at T: it ends with the clock at T, the savestate written
\* unless the save itself failed.
C16_StopsAtT ==
    (pc = "step" /\ run.iter = 0 /\ SaveAtAhead)
      ~> /\ pc \in {"exit", "panic"}
         /\ save_at = Some(sim.time)
         /\ (run.save_failed \/ Len(run.saved) = 1)

\* The run that starts at or after T ends when the engine is done.
C16_BehindEnds ==
    (pc = "step" /\ run.iter = 0 /\ SaveAtBehind)
      ~> (pc = "exit" /\ run.done /\ run.saved = <<>>)

Perpetual == run.entry.perpetual

C17_NoSaveAt ==
    (Running /\ save_at = None) =>
      /\ run.saved = <<>>
      /\ ~run.stop
      /\ ~run.save_failed
      /\ pc # "panic"
      /\ run.outcome \in {"none", "done"}
      /\ (pc = "callbacks" => ~ClosureFires(sim, save_at))
      /\ \A i \in 1..Len(run.evals) : run.evals[i].cb = 1
      /\ (pc = "is_done" => Len(run.evals) = Len(Callbacks))
      /\ (run.done <=> pc = "exit")
      /\ (pc = "exit" => is_done(sim) /\ Len(run.trace) = run.iter)
      /\ (pc = "exit" /\ ~Perpetual => sim = RunToCompletion(run.entry))
      /\ (pc = "step" /\ run.iter > 0 => ~is_done(sim))
      /\ (Perpetual =>
            /\ pc # "exit"
            /\ ~is_done(sim)
            /\ sim.pending # {})

\* Without save_at no step of the run touches the savestates.
C17_KeepsDisk == (InLoop /\ save_at = None) => disk' = disk

\* On perpetual demand the run is still going after every tick followed.
C17_GoesOn ==
    (pc = "step" /\ run.iter = 0 /\ save_at = None /\ Perpetual)
      ~> (pc = "step" /\ sim.time = MaxTicks /\ ~is_done(sim))

\* On demand that ends the run ends, the engine done.
C17_Ends ==
    (pc = "step" /\ run.iter = 0 /\ save_at = None /\ ~Perpetual)
      ~> (pc = "exit" /\ run.done /\ is_done(sim))

\* C17: without save_at the halt condition returns false at every tick and
\* never saves: no savestate is written in the whole run, the run ends
\* exactly when the engine reports completion, and on perpetual demand,
\* where the engine never does, the run does not end.
C17_NoSaveAtRunsToDone ==
    /\ []C17_NoSaveAt
    /\ [][C17_KeepsDisk]_vars
    /\ C17_GoesOn
    /\ C17_Ends

C17_Witness ==
    /\ pc = "step"
    /\ save_at = None
    /\ Perpetual
    /\ run.iter = MaxTicks
    /\ Len(sim.finished) >= 2
    /\ run.saved = <<>>
    /\ \E k \in 1..Len(past) :
         /\ past[k].flags.save_at = None
         /\ ~past[k].run.entry.perpetual
         /\ past[k].how = "exit"
         /\ past[k].run.done
         /\ past[k].run.iter = 3

C18_SandboxOnOwnMap ==
    ui.state = "sandbox" =>
      /\ ui.map = ui.challenge[1].map_name
      /\ ui.load = path_map(ui.challenge[1].map_name)
      /\ ui.mode = Some(ui.challenge[1].gameplay)

C18_Event ==
    (ui.state = "splash" /\ ui' # ui) =>
      LET chosen == ui'.last[1].input
          c == ui.challenge[1]
          same == /\ ui'.map = ui.map
                  /\ ui'.load = ui.load
                  /\ ui'.rebuilt = ui.rebuilt
                  /\ ui'.cameras = ui.cameras
      IN
      /\ ("back to challenges" \in chosen =>
            /\ ui'.state = "picker"
            /\ ui'.last[1].transition = "Replace(picker)"
            /\ same)
      /\ ("back to challenges" \notin chosen /\ "start challenge" \in chosen =>
            /\ ui'.state = "sandbox"
            /\ ui'.last[1].transition = "Replace(sandbox)"
            /\ ui'.mode = Some(c.gameplay)
            /\ ui'.challenge = ui.challenge
            /\ ui'.map = c.map_name
            /\ (c.map_name # ui.map =>
                  /\ ui'.rebuilt = ui.rebuilt + 1
                  /\ ui'.load = path_map(c.map_name)
                  /\ ui'.cameras = ui.cameras \cup {ui.map})
            /\ (c.map_name = ui.map => same))
      /\ (chosen \cap {"back to challenges", "start challenge"} = {} =>
            /\ ui'.state = "splash"
            /\ ui'.last[1].transition = "Keep"
            /\ ui'.challenge = ui.challenge
            /\ ui'.mode = ui.mode
            /\ same)

\* C18: ChallengeSplash::event: 'back to challenges' replaces the state by
\* the picker and is tested before 'start challenge'; 'start challenge'
\* rebuilds the UI from the challenge's map exactly when that map is not the
\* one loaded, then replaces the state by the sandbox in the challenge's
\* gameplay mode, so the sandbox is entered only with the challenge's map
\* loaded; any other event keeps the state and the UI.
C18_SplashTransitions == []C18_SandboxOnOwnMap /\ [][C18_Event]_vars

C18_Witness ==
    /\ ui.state = "sandbox"
    /\ ui.rebuilt = 1
    /\ ui.map = "23rd"
    /\ ui.cameras = {"montlake"}
    /\ ui.mode = Some([kind |-> "OptimizeBus", arg |-> "48"])

\* The state each pushing arm is to push.
PushOf ==
    [b \in {sandbox, edit, tutorial, debug, mission, abtest} |->
       CASE b = sandbox -> "SandboxMode"
         [] b = edit -> "EditMode"
         [] b = tutorial -> "TutorialMode"
         [] b = debug -> "DebugMode"
         [] b = mission -> "MissionEditMode"
         [] b = abtest -> "PickABTest"]

C19_EveryEntryHasItsArm ==
    /\ pc # "gui_panic"
    /\ Len(MenuEntries) = 9
    /\ Cardinality(SeqRange(MenuEntries)) = 9
    /\ \A x \in SeqRange(MenuEntries) :
         /\ Cardinality({ i \in 1..Len(BranchLabels) :
                            BranchLabels[i] = x }) = 1
         /\ Branch(x) = x
    /\ (ui.wizard # <<>> => ui.wizard[1] \in SeqRange(MenuEntries))
    /\ (ui.last # None /\ ui.last[1].branch # "" =>
          LET b == ui.last[1].branch
              t == ui.last[1].transition
              st == ui.last[1].state
          IN /\ b \in SeqRange(BranchLabels)
             /\ t \in {"Push", "Replace", "Pop", "Keep"}
             /\ (b \in DOMAIN PushOf => t = "Push" /\ st = PushOf[b])
             /\ (b = load_map =>
                   \/ t = "Push" /\ st = "SandboxMode"
                   \/ t = "Replace" /\ st = "SplashScreen"
                   \/ t = "Keep")
             /\ (b = about =>
                   \/ t = "Replace" /\ st = "SplashScreen"
                   \/ t = "Keep")
             /\ (b = quit => t = "Pop")
             /\ (t = "Push" => Top(ui.stack) = st)
             /\ (t = "Replace" =>
                   /\ ui.wizard = <<>>
                   /\ Top(ui.stack) = "SplashScreen"))

C19_ReplaceKeepsScreensaver ==
    (ui'.last # None /\ ui'.last[1].transition = "Replace") =>
      ui'.screensaver = ui.screensaver

\* C19: the dispatch of the splash screen's menu never reaches the fallback
\* arm: every one of the nine entries offered is matched by exactly one
\* named arm, and the arm yields a defined outcome: it pushes a mode,
\* replaces the splash screen by a fresh one that keeps the screensaver,
\* pops, or makes no transition yet.
C19_NoFallback ==
    []C19_EveryEntryHasItsArm /\ [][C19_ReplaceKeepsScreensaver]_vars

C19_Witness ==
    /\ pc = "gui"
    /\ ui.last # None
    /\ ui.last[1].branch = load_map
    /\ ui.last[1].transition = "Replace"
    /\ ui.last[1].input = Escape
    /\ ui.screensaver
    /\ ui.wizard = <<>>
    /\ ui.events = 4

=============================================================================
